---- MODULE Spec2Model ----
(***************************************************************************)
(* The signalling relay of src/src/server.ts: the connection registry      *)
(* (broadcasterSocket, viewerSockets), the websocket handlers open,        *)
(* message and close, and the routing functions they call.                 *)
(*                                                                         *)
(* One action is one run of a handler, from the event to its return.  The  *)
(* handlers are written as operators on a record s holding the program     *)
(* state, so that a handler that calls another (handleRegister calling     *)
(* close, close calling broadcastViewerCount) is the composition of their  *)
(* effects.  s.log collects, in order, what the handler did to the         *)
(* channels: a message written to an open channel, or a channel closed.    *)
(*                                                                         *)
(* ws.close() called by the server is followed by the close handler of     *)
(* that socket.  server.ts does not decide whether the runtime runs the    *)
(* handler inside the call or as a later event, so the model draws the     *)
(* runtime's way once, in Init (inlineClose), and keeps it.                *)
(*                                                                         *)
(* event, log and pre record the last handler run for the properties to    *)
(* read; Return drops the record when the handler has returned, and the    *)
(* next event is handled from there.                                       *)
(***************************************************************************)
EXTENDS Integers, Sequences, FiniteSets, TLC

\* Bounds of the model.
NumConns == 3
MaxViewerIds == 2

Conns == 1..NumConns
ViewerIds == 1..MaxViewerIds
\* null / undefined
None == 0

\* The opaque negotiation payloads a client may put in a message: the session
\* description of an offer, that of an answer, and a connectivity candidate.
OfferSdps == {"sdpA"}
AnswerSdps == {"sdpB"}
Candidates == {"candA"}
\* The role field of a register message as it arrives (not validated).
RegisterRoles == {"broadcaster", "viewer", "other"}
Origins == {"broadcaster", "viewer"}

VARIABLES
    role,               \* ws.data.role of each connection ("unassigned": undefined)
    viewerId,           \* ws.data.viewerId of each connection (None: undefined)
    readyState,         \* "CONNECTING" (not yet upgraded), "OPEN" or "CLOSED"
    closePending,       \* sockets the server closed whose close handler has not run yet
    broadcasterSocket,  \* the broadcaster slot, a connection or None
    viewerSockets,      \* the viewer map, a function from viewer ids to connections
    nextViewerId,       \* the next identifier crypto.randomUUID() hands out
    inlineClose,        \* TRUE: ws.close() runs the close handler inside the call
    event,              \* the event the last handler run was for
    log,                \* what that run did to the channels, in order
    pre                 \* the registry as that run found it

vars == <<role, viewerId, readyState, closePending, broadcasterSocket,
          viewerSockets, nextViewerId, inlineClose, event, log, pre>>

--------------------------------------------------------------------------
\* Messages (the server -> client shapes of jsonMessage calls), as records of one shape.

Msg(t, v, p, n, f) == [type |-> t, viewerId |-> v, payload |-> p, count |-> n, flag |-> f]

ErrTakeover == "Another broadcaster took over the session."
ErrBroadcaster == "Only the broadcaster may perform this action"
ErrViewer == "Only a registered viewer may perform this action"
\* The TypeError of a method call on null.
ErrNull == "null is not an object"
\* The SyntaxError of JSON.parse on text that is not JSON.
ErrParse == "JSON Parse error"

ErrorMsg(text) == Msg("error", None, text, 0, FALSE)
RegisteredBroadcaster == Msg("registered", None, "broadcaster", 0, FALSE)
RegisteredViewer(v, has) == Msg("registered", v, "viewer", 0, has)
ViewerJoined(v) == Msg("viewer-joined", v, "", 0, FALSE)
ViewerLeft(v) == Msg("viewer-left", v, "", 0, FALSE)
ViewerMissing(v) == Msg("viewer-missing", v, "", 0, FALSE)
OfferMsg(v, sdp) == Msg("offer", v, sdp, 0, FALSE)
AnswerMsg(v, sdp) == Msg("answer", v, sdp, 0, FALSE)
CandidateMsg(v, c, origin) == Msg("candidate", v, c, 0, origin = "broadcaster")
ViewerCount(n) == Msg("viewer-count", None, "", n, FALSE)
BroadcasterEnded == Msg("broadcaster-ended", None, "", 0, FALSE)
Stopped == Msg("stopped", None, "", 0, FALSE)
\* The log's entry for a channel closed by the server.
CloseMark == Msg("close", None, "", 0, FALSE)

EmptyMap == [k \in {} |-> None]

\* The keys of the viewer map in the order Map.forEach visits them: insertion
\* order, which is the order of the identifiers since each is issued after the last.
RECURSIVE SortedKeys(_)
SortedKeys(S) ==
    IF S = {} THEN <<>>
    ELSE LET m == CHOOSE x \in S : \A y \in S : x <= y
         IN <<m>> \o SortedKeys(S \ {m})

--------------------------------------------------------------------------
\* The handlers, on a record s of the program state.

\* ws.send(payload): written to the channel if it is open, dropped otherwise.
Send(s, ws, m) ==
    IF s.readyState[ws] = "OPEN"
    THEN [s EXCEPT !.log = Append(@, [to |-> ws, msg |-> m])]
    ELSE s

RECURSIVE SendEach(_, _, _)
SendEach(s, keys, m) ==
    IF keys = <<>> THEN s
    ELSE SendEach(Send(s, s.viewerSockets[Head(keys)], m), Tail(keys), m)

\* A count broadcast that reaches every open connection, registered or not.
RECURSIVE SendAll(_, _, _)
SendAll(s, cs, m) ==
    IF cs = {} THEN s
    ELSE LET c == CHOOSE x \in cs : \A y \in cs : x <= y
         IN SendAll(Send(s, c, m), cs \ {c}, m)

broadcastViewerCount_ToAll(s) ==
    SendAll(s, Conns, ViewerCount(Cardinality(DOMAIN s.viewerSockets)))

broadcastViewerCount(s) ==
    LET payload == ViewerCount(Cardinality(DOMAIN s.viewerSockets))
        s1 == SendEach(s, SortedKeys(DOMAIN s.viewerSockets), payload)
    IN IF s1.broadcasterSocket # None /\ s1.readyState[s1.broadcasterSocket] = "OPEN"
       THEN Send(s1, s1.broadcasterSocket, payload)
       ELSE s1

RECURSIVE OnClose(_, _)
RECURSIVE WsClose(_, _)
RECURSIVE EndViewers(_, _)

\* ws.close() called by the server: nothing on a closed socket; otherwise the
\* channel closes and its close handler runs, inside the call or later.
WsClose(s, ws) ==
    IF s.readyState[ws] # "OPEN" THEN s
    ELSE LET s1 == [s EXCEPT !.readyState[ws] = "CLOSED",
                             !.log = Append(@, [to |-> ws, msg |-> CloseMark])]
         IN IF s.inlineClose
            THEN OnClose(s1, ws)
            ELSE [s1 EXCEPT !.closePending = @ \cup {ws}]

\* viewerSockets.forEach(viewerWs => { send broadcaster-ended; close }): an entry
\* deleted before its turn is not visited.
EndViewers(s, keys) ==
    IF keys = <<>> THEN s
    ELSE IF Head(keys) \notin DOMAIN s.viewerSockets THEN EndViewers(s, Tail(keys))
    ELSE LET viewerWs == s.viewerSockets[Head(keys)]
         IN EndViewers(WsClose(Send(s, viewerWs, BroadcasterEnded), viewerWs), Tail(keys))

\* A close handler that sends the viewer count whatever the role of the socket.
OnClose_AlwaysCounts(s, ws) == broadcastViewerCount(s)

\* websocket.close(ws)
OnClose(s, ws) ==
    IF s.role[ws] = "broadcaster"
    THEN LET s1 == [s EXCEPT !.broadcasterSocket = None]
             s2 == EndViewers(s1, SortedKeys(DOMAIN s1.viewerSockets))
             s3 == [s2 EXCEPT !.viewerSockets = EmptyMap]
         IN broadcastViewerCount(s3)
    ELSE IF s.role[ws] = "viewer" /\ s.viewerId[ws] # None
    THEN LET id == s.viewerId[ws]
             s1 == [s EXCEPT !.viewerSockets =
                        [k \in (DOMAIN s.viewerSockets) \ {id} |-> s.viewerSockets[k]]]
             s2 == IF s1.broadcasterSocket # None
                   THEN Send(s1, s1.broadcasterSocket, ViewerLeft(id))
                   ELSE s1
         IN broadcastViewerCount(s2)
    ELSE s

\* A role check that lets any registered connection through.
ensureBroadcaster_AnyRole(s, ws) == s.role[ws] # "unassigned"

\* ensureBroadcaster(ws) / ensureViewer(ws): TRUE when the call returns, FALSE when it throws.
ensureBroadcaster(s, ws) == s.role[ws] = "broadcaster"

ensureViewer(s, ws) == s.role[ws] = "viewer" /\ s.viewerId[ws] # None

\* An announcement loop that stops after the first entry of the map.
AnnounceViewers_FirstOnly(s, ws, keys) ==
    IF keys = <<>> THEN s ELSE Send(s, ws, ViewerJoined(Head(keys)))

RECURSIVE AnnounceViewers(_, _, _)
AnnounceViewers(s, ws, keys) ==
    IF keys = <<>> THEN s
    ELSE AnnounceViewers(Send(s, ws, ViewerJoined(Head(keys))), ws, Tail(keys))

\* An identifier generator that hands out the same identifier every time.
randomUUID_Constant(s) == 1

\* crypto.randomUUID(): an identifier no earlier call returned.
randomUUID(s) == s.nextViewerId

handleRegister(s, ws, r) ==
    IF r = "broadcaster"
    THEN LET old == s.broadcasterSocket
             s1 == IF old # None /\ s.readyState[old] = "OPEN"
                   THEN WsClose(Send(s, old, ErrorMsg(ErrTakeover)), old)
                   ELSE s
             s2 == [s1 EXCEPT !.role[ws] = "broadcaster", !.broadcasterSocket = ws]
             s3 == Send(s2, ws, RegisteredBroadcaster)
         IN AnnounceViewers(s3, ws, SortedKeys(DOMAIN s3.viewerSockets))
    ELSE LET id == randomUUID(s)
             s1 == [s EXCEPT !.nextViewerId = @ + 1,
                             !.role[ws] = "viewer",
                             !.viewerId[ws] = id,
                             !.viewerSockets = [k \in (DOMAIN s.viewerSockets) \cup {id} |->
                                                   IF k = id THEN ws ELSE s.viewerSockets[k]]]
             s2 == Send(s1, ws, RegisteredViewer(id, s1.broadcasterSocket # None))
             s3 == IF s2.broadcasterSocket # None
                   THEN Send(s2, s2.broadcasterSocket, ViewerJoined(id))
                   ELSE s2
         IN broadcastViewerCount(s3)

forwardOffer(s, id, sdp) ==
    IF id \notin DOMAIN s.viewerSockets
    THEN IF s.broadcasterSocket # None
         THEN Send(s, s.broadcasterSocket, ViewerMissing(id))
         ELSE s
    ELSE Send(s, s.viewerSockets[id], OfferMsg(id, sdp))

forwardAnswer(s, id, sdp) ==
    IF s.broadcasterSocket = None THEN s
    ELSE Send(s, s.broadcasterSocket, AnswerMsg(id, sdp))

\* A candidate forwarder that reports an unknown viewer as forwardOffer does.
forwardCandidateToViewer_Reporting(s, id, candidate) ==
    IF id \in DOMAIN s.viewerSockets
    THEN Send(s, s.viewerSockets[id], CandidateMsg(id, candidate, "broadcaster"))
    ELSE IF s.broadcasterSocket # None
    THEN Send(s, s.broadcasterSocket, ViewerMissing(id))
    ELSE s

forwardCandidateToViewer(s, id, candidate) ==
    IF id \in DOMAIN s.viewerSockets
    THEN Send(s, s.viewerSockets[id], CandidateMsg(id, candidate, "broadcaster"))
    ELSE s

forwardCandidateToBroadcaster(s, id, candidate) ==
    IF s.broadcasterSocket # None
    THEN Send(s, s.broadcasterSocket, CandidateMsg(id, candidate, "viewer"))
    ELSE s

\* broadcasterSocket.send() after the forEach throws a TypeError when a close
\* handler run inside the loop has set broadcasterSocket to null.
stopBroadcast(s) ==
    IF s.broadcasterSocket = None THEN s
    ELSE LET s1 == EndViewers(s, SortedKeys(DOMAIN s.viewerSockets))
             s2 == [s1 EXCEPT !.viewerSockets = EmptyMap]
         IN IF s2.broadcasterSocket = None
            THEN [s2 EXCEPT !.thrown = ErrNull]
            ELSE broadcastViewerCount(Send(s2, s2.broadcasterSocket, Stopped))

\* The catch block of websocket.message: the thrown error goes to the sender.
Catch(s, ws, text) == Send(s, ws, ErrorMsg(text))

\* websocket.message(ws, rawMessage), by the type of the decoded message.
OnRegister(s, ws, r) == handleRegister(s, ws, r)

OnOffer(s, ws, id, sdp) ==
    IF ensureBroadcaster(s, ws) THEN forwardOffer(s, id, sdp)
    ELSE Catch(s, ws, ErrBroadcaster)

OnAnswer(s, ws, id, sdp) ==
    IF ensureViewer(s, ws) THEN forwardAnswer(s, id, sdp)
    ELSE Catch(s, ws, ErrViewer)

OnCandidate(s, ws, id, candidate, origin) ==
    IF origin = "broadcaster"
    THEN IF ensureBroadcaster(s, ws) THEN forwardCandidateToViewer(s, id, candidate)
         ELSE Catch(s, ws, ErrBroadcaster)
    ELSE IF ensureViewer(s, ws) THEN forwardCandidateToBroadcaster(s, id, candidate)
         ELSE Catch(s, ws, ErrViewer)

OnStop(s, ws) ==
    IF ensureBroadcaster(s, ws)
    THEN LET r == stopBroadcast(s)
         IN IF r.thrown # "" THEN Catch([r EXCEPT !.thrown = ""], ws, r.thrown) ELSE r
    ELSE Catch(s, ws, ErrBroadcaster)

\* rawMessage is not JSON: JSON.parse throws inside the try block.
OnMalformed(s, ws) == Catch(s, ws, ErrParse)

\* The default branch of the switch: console.warn, nothing thrown, nothing sent.
OnUnknown(s, ws) == s

--------------------------------------------------------------------------
\* The state machine.

\* The program state as a record, with an empty log for the handler about to run.
Cur ==
    [role |-> role, viewerId |-> viewerId, readyState |-> readyState,
     closePending |-> closePending, broadcasterSocket |-> broadcasterSocket,
     viewerSockets |-> viewerSockets, nextViewerId |-> nextViewerId,
     inlineClose |-> inlineClose, log |-> <<>>, thrown |-> ""]

Registry ==
    [role |-> role, viewerId |-> viewerId, readyState |-> readyState,
     closePending |-> closePending, broadcasterSocket |-> broadcasterSocket,
     viewerSockets |-> viewerSockets]

Event(k, ws, id, arg, origin) ==
    [kind |-> k, ws |-> ws, viewerId |-> id, arg |-> arg, origin |-> origin]

\* No handler is running and the record of the last run has been dropped.
Idle == Event("idle", None, None, "", "")

\* The socket object of c is garbage: its channel is closed, its close handler
\* has run, and neither the slot nor the map refers to it.  Its data is gone with it.
Collected(s, c) ==
    /\ s.readyState[c] = "CLOSED"
    /\ c \notin s.closePending
    /\ s.broadcasterSocket # c
    /\ \A k \in DOMAIN s.viewerSockets : s.viewerSockets[k] # c

\* The handler run for event e, started when the event loop was idle, left the
\* program in s.
Becomes(s, e) ==
    /\ event = Idle
    /\ role' = [c \in Conns |-> IF Collected(s, c) THEN "unassigned" ELSE s.role[c]]
    /\ viewerId' = [c \in Conns |-> IF Collected(s, c) THEN None ELSE s.viewerId[c]]
    /\ readyState' = s.readyState
    /\ closePending' = s.closePending
    /\ broadcasterSocket' = s.broadcasterSocket
    /\ viewerSockets' = s.viewerSockets
    /\ nextViewerId' = s.nextViewerId
    /\ log' = s.log
    /\ event' = e
    /\ pre' = Registry
    /\ UNCHANGED inlineClose

Init ==
    /\ role = [c \in Conns |-> "unassigned"]
    /\ viewerId = [c \in Conns |-> None]
    /\ readyState = [c \in Conns |-> "CONNECTING"]
    /\ closePending = {}
    /\ broadcasterSocket = None
    /\ viewerSockets = EmptyMap
    /\ nextViewerId = 1
    /\ inlineClose \in BOOLEAN
    /\ event = Idle
    /\ log = <<>>
    /\ pre = [role |-> role, viewerId |-> viewerId, readyState |-> readyState,
              closePending |-> closePending, broadcasterSocket |-> broadcasterSocket,
              viewerSockets |-> viewerSockets]

\* websocket.open(ws): the next connection is upgraded; ws.data = {}.
Open(ws) ==
    /\ readyState[ws] = "CONNECTING"
    /\ \A c \in Conns : c < ws => readyState[c] # "CONNECTING"
    /\ Becomes([Cur EXCEPT !.readyState[ws] = "OPEN",
                           !.role[ws] = "unassigned",
                           !.viewerId[ws] = None],
               Event("open", ws, None, "", ""))

Register(ws, r) ==
    /\ readyState[ws] = "OPEN"
    /\ r = "broadcaster" \/ nextViewerId <= MaxViewerIds
    /\ Becomes(OnRegister(Cur, ws, r), Event("register", ws, None, r, ""))

Offer(ws, id, sdp) ==
    /\ readyState[ws] = "OPEN"
    /\ Becomes(OnOffer(Cur, ws, id, sdp), Event("offer", ws, id, sdp, ""))

Answer(ws, id, sdp) ==
    /\ readyState[ws] = "OPEN"
    /\ Becomes(OnAnswer(Cur, ws, id, sdp), Event("answer", ws, id, sdp, ""))

Candidate(ws, id, candidate, origin) ==
    /\ readyState[ws] = "OPEN"
    /\ Becomes(OnCandidate(Cur, ws, id, candidate, origin),
               Event("candidate", ws, id, candidate, origin))

Stop(ws) ==
    /\ readyState[ws] = "OPEN"
    /\ Becomes(OnStop(Cur, ws), Event("stop", ws, None, "", ""))

\* A payload that is not JSON.
Malformed(ws) ==
    /\ readyState[ws] = "OPEN"
    /\ Becomes(OnMalformed(Cur, ws), Event("malformed", ws, None, "", ""))

\* A JSON message whose type is none of the five the switch knows.
Unknown(ws) ==
    /\ readyState[ws] = "OPEN"
    /\ Becomes(OnUnknown(Cur, ws), Event("unknown", ws, None, "", ""))

\* The peer closes the channel, or the transport fails: the close handler runs.
PeerClose(ws) ==
    /\ readyState[ws] = "OPEN"
    /\ Becomes(OnClose([Cur EXCEPT !.readyState[ws] = "CLOSED"], ws),
               Event("close", ws, None, "peer", ""))

\* The close handler of a socket the server closed, run as a later event.
CloseEvent(ws) ==
    /\ ws \in closePending
    /\ Becomes(OnClose([Cur EXCEPT !.closePending = @ \ {ws}], ws),
               Event("close", ws, None, "server", ""))

\* The least identifiers of S: one identifier to stand for all of S.
Least(S) == {id \in S : \A o \in S : id <= o}

\* The viewerId field of a message from ws: a key of the viewer map, the
\* sender's own identifier, or one identifier that is neither (the handlers
\* treat all of those alike: no lookup finds them and nothing is compared with them).
MessageIds(ws) ==
    LET known == (DOMAIN viewerSockets \cup {viewerId[ws]}) \ {None}
    IN known \cup Least(ViewerIds \ known)

\* The viewerId field of a message from ws that is subject to a role check:
\* when the check throws, the field is never read, and one identifier stands
\* for all.
CheckedIds(ws, passes) ==
    IF passes THEN MessageIds(ws) ELSE Least(MessageIds(ws))

\* The handler has returned: the event loop is idle again, and the record of
\* the run (event, log, pre) is dropped.
Return ==
    /\ event # Idle
    /\ event' = Idle
    /\ log' = <<>>
    /\ pre' = Registry
    /\ UNCHANGED <<role, viewerId, readyState, closePending, broadcasterSocket,
                   viewerSockets, nextViewerId, inlineClose>>

Next ==
    \/ Return
    \/ \E ws \in Conns : Open(ws)
    \/ \E ws \in Conns, r \in RegisterRoles : Register(ws, r)
    \/ /\ event = Idle
       /\ \E ws \in Conns :
             \E id \in CheckedIds(ws, ensureBroadcaster(Cur, ws)), sdp \in OfferSdps :
                Offer(ws, id, sdp)
    \/ /\ event = Idle
       /\ \E ws \in Conns :
             \E id \in CheckedIds(ws, ensureViewer(Cur, ws)), sdp \in AnswerSdps :
                Answer(ws, id, sdp)
    \/ /\ event = Idle
       /\ \E ws \in Conns, o \in Origins :
             \E id \in CheckedIds(ws, IF o = "broadcaster" THEN ensureBroadcaster(Cur, ws)
                                                           ELSE ensureViewer(Cur, ws)),
                c \in Candidates :
                Candidate(ws, id, c, o)
    \/ \E ws \in Conns : Stop(ws)
    \/ \E ws \in Conns : Malformed(ws)
    \/ \E ws \in Conns : Unknown(ws)
    \/ \E ws \in Conns : PeerClose(ws)
    \/ \E ws \in Conns : CloseEvent(ws)

Spec == Init /\ [][Next]_vars

--------------------------------------------------------------------------
\* What the last handler run did, read from its log.

\* How many times message m was written to connection c.
Times(c, m) == Cardinality({i \in DOMAIN log : log[i].to = c /\ log[i].msg = m})

\* How many messages of type t were written to connection c.
TimesType(c, t) == Cardinality({i \in DOMAIN log : log[i].to = c /\ log[i].msg.type = t})

\* The connections something was written to, and those the server closed.
Recipients == {log[i].to : i \in {j \in DOMAIN log : log[j].msg # CloseMark}}
ClosedByServer == {log[i].to : i \in {j \in DOMAIN log : log[j].msg = CloseMark}}

\* The registry (slot and map) is as the handler found it.
RegistryUnchanged ==
    /\ broadcasterSocket = pre.broadcasterSocket
    /\ viewerSockets = pre.viewerSockets

\* The connections held in the viewer map the handler found.
PreViewers == {pre.viewerSockets[k] : k \in DOMAIN pre.viewerSockets}

--------------------------------------------------------------------------
\* The claims.

\* C1 (as stated): after any sequence of register(broadcaster) messages the slot
\* holds the connection that registered last and every earlier holder has been
\* closed, so an open connection registered as the broadcaster is the one in the
\* slot, and there are never two of them.
C1_LatestBroadcasterHoldsSlot ==
    /\ \A c \in Conns :
          role[c] = "broadcaster" /\ readyState[c] = "OPEN" => broadcasterSocket = c
    /\ event.kind = "register" /\ event.arg = "broadcaster" => broadcasterSocket = event.ws

\* C2 (as stated): the close event of a broadcaster that a takeover displaced,
\* handled after the new broadcaster registered, leaves the slot on the new
\* broadcaster and the viewer map as it was, and writes to and closes no connection.
C2_StaleCloseKeepsRegistry ==
    (/\ event.kind = "close"
     /\ pre.role[event.ws] = "broadcaster"
     /\ pre.broadcasterSocket \notin {None, event.ws})
    => /\ RegistryUnchanged
       /\ log = <<>>

\* C3 (as stated): a register message from a connection whose role is already
\* assigned gets one error, sent to that connection only, and changes neither
\* the roles, the viewerIds, the slot nor the map, and closes no channel.
C3_SecondRegisterRejected ==
    (event.kind = "register" /\ pre.role[event.ws] # "unassigned")
    => /\ Len(log) = 1
       /\ log[1].to = event.ws
       /\ log[1].msg.type = "error"
       /\ role = pre.role
       /\ viewerId = pre.viewerId
       /\ readyState = pre.readyState
       /\ RegistryUnchanged

\* C5 (as stated): an answer reaches the broadcaster only if its sender is a
\* registered viewer and the viewerId in the message is the sender's own.
C5_AnswerNamesItsSender ==
    event.kind = "answer" =>
        \A i \in DOMAIN log :
            log[i].msg.type = "answer" =>
                /\ pre.role[event.ws] = "viewer"
                /\ log[i].msg.viewerId = pre.viewerId[event.ws]

\* C4 (as stated): an offer(V, sdp) from the registered broadcaster is delivered,
\* with the same viewerId and sdp, to the connection the map holds for V and to
\* nobody else when V is a key of the map; otherwise the sender gets one
\* viewer-missing naming V and nobody else gets anything.
C4_OfferRouted ==
    (/\ event.kind = "offer"
     /\ pre.role[event.ws] = "broadcaster"
     /\ pre.broadcasterSocket = event.ws)
    => IF event.viewerId \in DOMAIN pre.viewerSockets
       THEN log = << [to |-> pre.viewerSockets[event.viewerId],
                      msg |-> OfferMsg(event.viewerId, event.arg)] >>
       ELSE log = << [to |-> event.ws, msg |-> ViewerMissing(event.viewerId)] >>

\* The first position of the log at which message m is written to c (0: none).
FirstAt(c, m) ==
    IF \E i \in DOMAIN log : log[i].to = c /\ log[i].msg = m
    THEN CHOOSE i \in DOMAIN log :
            /\ log[i].to = c /\ log[i].msg = m
            /\ \A j \in DOMAIN log : (log[j].to = c /\ log[j].msg = m) => i <= j
    ELSE 0

\* Connection c got exactly one broadcaster-ended and was closed by the server after it.
EndedThenClosed(c) ==
    /\ Times(c, BroadcasterEnded) = 1
    /\ Times(c, CloseMark) = 1
    /\ FirstAt(c, BroadcasterEnded) < FirstAt(c, CloseMark)

\* C6 (as stated): when the channel of the registered broadcaster closes, every
\* connection in the viewer map gets exactly one broadcaster-ended and is then
\* closed by the server, the slot is cleared and the map is empty.
C6_BroadcasterCloseCascade ==
    (/\ event.kind = "close"
     /\ pre.role[event.ws] = "broadcaster"
     /\ pre.broadcasterSocket = event.ws)
    => /\ \A c \in PreViewers : EndedThenClosed(c)
       /\ broadcasterSocket = None
       /\ viewerSockets = EmptyMap

\* The connections the viewer map holds now.
Viewers == {viewerSockets[k] : k \in DOMAIN viewerSockets}

\* C7 (as stated): when the channel of a registered viewer V closes, V is no
\* longer in the map, the broadcaster, if one is registered, gets exactly one
\* viewer-left naming V, and the broadcaster and every viewer still registered
\* get a viewer-count with the number of viewers that remain.
C7_ViewerCloseCascade ==
    (/\ event.kind = "close"
     /\ pre.role[event.ws] = "viewer"
     /\ pre.viewerId[event.ws] \in DOMAIN pre.viewerSockets
     /\ pre.viewerSockets[pre.viewerId[event.ws]] = event.ws)
    => LET V == pre.viewerId[event.ws]
           remaining == ViewerCount(Cardinality(PreViewers \ {event.ws}))
       IN /\ V \notin DOMAIN viewerSockets
          /\ event.ws \notin Viewers
          /\ pre.broadcasterSocket # None =>
                /\ Times(pre.broadcasterSocket, ViewerLeft(V)) = 1
                /\ TimesType(pre.broadcasterSocket, "viewer-left") = 1
                /\ Times(pre.broadcasterSocket, remaining) >= 1
          /\ \A c \in Viewers : Times(c, remaining) >= 1

\* C8 (as stated): a stop from the registered broadcaster sends broadcaster-ended
\* to every viewer in the map and closes it, empties the map, confirms with
\* stopped to the sender, and leaves the sender open, with its role and in the
\* slot; a viewer registering while that broadcaster holds the slot is announced
\* to it with viewer-joined.
C8_StopKeepsBroadcaster ==
    /\ (/\ event.kind = "stop"
        /\ pre.role[event.ws] = "broadcaster"
        /\ pre.broadcasterSocket = event.ws)
       => /\ \A c \in PreViewers : Times(c, BroadcasterEnded) >= 1 /\ c \in ClosedByServer
          /\ viewerSockets = EmptyMap
          /\ Times(event.ws, Stopped) = 1
          /\ role[event.ws] = "broadcaster"
          /\ broadcasterSocket = event.ws
          /\ readyState[event.ws] = "OPEN"
    /\ (/\ event.kind = "register"
        /\ event.arg # "broadcaster"
        /\ pre.broadcasterSocket # None)
       => Times(pre.broadcasterSocket, ViewerJoined(viewerId[event.ws])) = 1

\* C9 (as stated): the close of a viewer whose identifier is no longer a key of
\* the map (a stop or a broadcaster-close cascade removed it) changes nothing in
\* the registry and sends nothing: no viewer-left, no viewer-count.
C9_AbsentViewerCloseSilent ==
    (/\ event.kind = "close"
     /\ pre.role[event.ws] = "viewer"
     /\ pre.viewerId[event.ws] \notin DOMAIN pre.viewerSockets)
    => /\ RegistryUnchanged
       /\ log = <<>>

\* The last event is a message whose sender did not hold the role it requires.
WrongRole ==
    \/ /\ event.kind \in {"offer", "stop"}
       /\ pre.role[event.ws] # "broadcaster"
    \/ /\ event.kind = "candidate" /\ event.origin = "broadcaster"
       /\ pre.role[event.ws] # "broadcaster"
    \/ /\ event.kind = "answer"
       /\ pre.role[event.ws] # "viewer"
    \/ /\ event.kind = "candidate" /\ event.origin # "broadcaster"
       /\ pre.role[event.ws] # "viewer"

\* C10: a message from a sender without the required role yields exactly one
\* error message, written to the sender; nothing is written to any other
\* connection, the registry and every connection's role, viewerId and channel
\* are as before, and the sender stays open.
C10_WrongRoleError ==
    WrongRole
    => /\ Len(log) = 1
       /\ log[1].to = event.ws
       /\ log[1].msg.type = "error"
       /\ RegistryUnchanged
       /\ role = pre.role
       /\ viewerId = pre.viewerId
       /\ readyState = pre.readyState
       /\ readyState[event.ws] = "OPEN"

\* C10's case: a viewer's offer was answered with the broadcaster-only error
\* while another connection holds the broadcaster slot.
C10_Witness ==
    /\ event.kind = "offer"
    /\ pre.role[event.ws] = "viewer"
    /\ broadcasterSocket \notin {None, event.ws}
    /\ log = << [to |-> event.ws, msg |-> ErrorMsg(ErrBroadcaster)] >>

\* The last event is a payload that is none of the known client message shapes.
UnknownShape ==
    \/ event.kind \in {"malformed", "unknown"}
    \/ event.kind = "register" /\ event.arg \notin {"broadcaster", "viewer"}

\* C11 (as stated): text that is not JSON, a message of unknown type and a
\* register with a role other than broadcaster and viewer each get one error,
\* written to the sender; no other connection gets anything, and the registry
\* and the sender's role are as before.
C11_MalformedIsViolation ==
    UnknownShape
    => /\ Len(log) = 1
       /\ log[1].to = event.ws
       /\ log[1].msg.type = "error"
       /\ RegistryUnchanged
       /\ role[event.ws] = pre.role[event.ws]

\* C12 (as stated): the slot, if set, holds an open connection whose role is
\* broadcaster, and every key k of the viewer map leads to an open connection
\* whose role is viewer and whose viewerId is k.
C12_RegistryWellFormed ==
    /\ broadcasterSocket # None =>
          /\ role[broadcasterSocket] = "broadcaster"
          /\ readyState[broadcasterSocket] = "OPEN"
    /\ \A k \in DOMAIN viewerSockets :
          /\ readyState[viewerSockets[k]] = "OPEN"
          /\ role[viewerSockets[k]] = "viewer"
          /\ viewerId[viewerSockets[k]] = k

\* C13 (as stated): a connection has a viewerId exactly when its role is viewer,
\* and a connection whose role is broadcaster or unassigned is no value of the
\* viewer map.
C13_ViewerIdIffViewer ==
    \A c \in Conns :
        /\ viewerId[c] # None <=> role[c] = "viewer"
        /\ role[c] # "viewer" => c \notin Viewers

\* C14: viewer identifiers are unique.  No two connections carry the same
\* viewerId, and every open connection registered as a viewer is held in the
\* map under its own identifier, so N open viewers are N distinct keys leading
\* to N different connections.
C14_ViewerIdsUnique ==
    /\ \A c1, c2 \in Conns :
          c1 # c2 /\ viewerId[c1] # None => viewerId[c1] # viewerId[c2]
    /\ \A c \in Conns :
          readyState[c] = "OPEN" /\ role[c] = "viewer" =>
             /\ viewerId[c] \in DOMAIN viewerSockets
             /\ viewerSockets[viewerId[c]] = c

\* C14's case: the second of two viewers has registered while the first is
\* still open, and the map holds both under different keys.
C14_Witness ==
    /\ event.kind = "register"
    /\ event.arg = "viewer"
    /\ \E c \in Conns \ {event.ws} :
          /\ pre.role[c] = "viewer"
          /\ readyState[c] = "OPEN"
          /\ viewerId[c] # viewerId[event.ws]
          /\ viewerSockets[viewerId[c]] = c
    /\ viewerSockets[viewerId[event.ws]] = event.ws
    /\ Cardinality(DOMAIN viewerSockets) = 2

\* The last event is the first register message of its sender, asking for role r.
FirstRegister(r) ==
    /\ event.kind = "register"
    /\ event.arg = r
    /\ pre.role[event.ws] = "unassigned"

\* C15 (as stated): on register(viewer) the new viewer gets one registered reply
\* with a fresh viewerId and a hasBroadcaster flag that is true exactly when an
\* open broadcaster holds the slot; exactly then the broadcaster gets one
\* viewer-joined naming the new id; and every connection in the viewer map and
\* the broadcaster get a viewer-count with the number of registered viewers.
C15_RegisterViewer ==
    FirstRegister("viewer")
    => LET b == pre.broadcasterSocket
           live == b # None /\ pre.readyState[b] = "OPEN"
           id == viewerId[event.ws]
           n == ViewerCount(Cardinality(Viewers))
       IN /\ id # None
          /\ id \notin DOMAIN pre.viewerSockets
          /\ \A c \in Conns : pre.viewerId[c] # id
          /\ viewerSockets[id] = event.ws
          /\ Times(event.ws, RegisteredViewer(id, live)) = 1
          /\ TimesType(event.ws, "registered") = 1
          /\ live => /\ Times(b, ViewerJoined(id)) = 1
                      /\ TimesType(b, "viewer-joined") = 1
                      /\ Times(b, n) = 1
          /\ ~live => \A i \in DOMAIN log : log[i].msg.type # "viewer-joined"
          /\ \A c \in Viewers : Times(c, n) = 1

\* C16: on register(broadcaster) the new broadcaster gets one registered
\* confirmation and, after it, exactly one viewer-joined for each identifier in
\* the viewer map and none for any other identifier.
C16_BroadcasterToldOfViewers ==
    FirstRegister("broadcaster")
    => /\ Times(event.ws, RegisteredBroadcaster) = 1
       /\ TimesType(event.ws, "registered") = 1
       /\ \A k \in DOMAIN viewerSockets : Times(event.ws, ViewerJoined(k)) = 1
       /\ TimesType(event.ws, "viewer-joined") = Cardinality(DOMAIN viewerSockets)
       /\ \A i \in DOMAIN log :
             log[i].msg.type = "viewer-joined" =>
                /\ log[i].to = event.ws
                /\ FirstAt(event.ws, RegisteredBroadcaster) < i

\* C16's case: a broadcaster registered while the map held two viewers and was
\* told of both.
C16_Witness ==
    /\ FirstRegister("broadcaster")
    /\ Cardinality(DOMAIN pre.viewerSockets) = 2
    /\ viewerSockets = pre.viewerSockets
    /\ TimesType(event.ws, "viewer-joined") = 2

\* The sender of the last event held the broadcaster slot with role broadcaster.
FromBroadcaster ==
    /\ pre.role[event.ws] = "broadcaster"
    /\ pre.broadcasterSocket = event.ws

\* The sender of the last event was a viewer held in the map under its identifier.
FromViewer ==
    /\ pre.role[event.ws] = "viewer"
    /\ pre.viewerId[event.ws] \in DOMAIN pre.viewerSockets
    /\ pre.viewerSockets[pre.viewerId[event.ws]] = event.ws

\* Connection c is held by the registry the handler found and its channel is open.
Present(c) == c # None /\ pre.readyState[c] = "OPEN"

\* The connection the map the handler found holds for identifier id (None: no such key).
PreViewerOf(id) ==
    IF id \in DOMAIN pre.viewerSockets THEN pre.viewerSockets[id] ELSE None

\* C17: a broadcaster-origin candidate from the broadcaster goes, unchanged, to
\* the named viewer and nobody else when the map holds that viewer with an open
\* channel; a viewer-origin candidate from a viewer goes, unchanged, to the
\* broadcaster and nobody else when the slot holds one with an open channel;
\* with no such recipient the candidate, like an answer without a broadcaster,
\* is dropped and nothing is sent to anyone.  The registry is unchanged in
\* every case.
C17_CandidateRouted ==
    /\ (event.kind = "candidate" /\ event.origin = "broadcaster" /\ FromBroadcaster)
       => /\ RegistryUnchanged
          /\ IF Present(PreViewerOf(event.viewerId))
             THEN log = << [to |-> pre.viewerSockets[event.viewerId],
                            msg |-> CandidateMsg(event.viewerId, event.arg, "broadcaster")] >>
             ELSE log = <<>>
    /\ (event.kind = "candidate" /\ event.origin = "viewer" /\ FromViewer)
       => /\ RegistryUnchanged
          /\ IF Present(pre.broadcasterSocket)
             THEN log = << [to |-> pre.broadcasterSocket,
                            msg |-> CandidateMsg(event.viewerId, event.arg, "viewer")] >>
             ELSE log = <<>>
    /\ (event.kind = "answer" /\ FromViewer /\ ~Present(pre.broadcasterSocket))
       => /\ RegistryUnchanged
          /\ log = <<>>

\* C17's case: the broadcaster sent a candidate for an identifier the map does
\* not hold, while a viewer is registered, and nothing was sent.
C17_Witness ==
    /\ event.kind = "candidate"
    /\ event.origin = "broadcaster"
    /\ FromBroadcaster
    /\ event.viewerId \notin DOMAIN pre.viewerSockets
    /\ \E c \in PreViewers : pre.readyState[c] = "OPEN"
    /\ log = <<>>

\* C18 (as stated): a connection whose close event has been handled is not in
\* the broadcaster slot and is no value of the viewer map.
C18_ClosedIsUnreferenced ==
    \A c \in Conns :
        readyState[c] = "CLOSED" /\ c \notin closePending =>
            /\ broadcasterSocket # c
            /\ c \notin Viewers

\* The last position of the log at which the cascade acted on a viewer (0: none).
LastCascade ==
    LET steps == {i \in DOMAIN log : log[i].msg \in {BroadcasterEnded, CloseMark}}
    IN IF steps = {} THEN 0 ELSE CHOOSE i \in steps : \A j \in steps : j <= i

\* C19: when the channel of the registered broadcaster closes, the slot is
\* cleared and the map is empty when the cascade is over, so the viewer-count
\* that follows it has count 0, and no connection gets it: nothing is written
\* after the cascade, and no viewer-count of 0 is written at all.
C19_FinalCountReachesNobody ==
    (event.kind = "close" /\ FromBroadcaster)
    => /\ broadcasterSocket = None
       /\ viewerSockets = EmptyMap
       /\ \A i \in DOMAIN log : i > LastCascade => log[i].msg.type # "viewer-count"
       /\ \A i \in DOMAIN log : log[i].msg # ViewerCount(0)

\* C19's case: the broadcaster closed while two open viewers were registered,
\* and the cascade's last step is the last thing the handler did to a channel.
C19_Witness ==
    /\ event.kind = "close"
    /\ FromBroadcaster
    /\ Cardinality(PreViewers) = 2
    /\ \A c \in PreViewers : pre.readyState[c] = "OPEN"
    /\ log # <<>>
    /\ LastCascade = Len(log)

\* Every message m1 written to c comes before every message m2 written to c.
Precedes(c, m1, m2) ==
    \A i, j \in DOMAIN log :
        (log[i].to = c /\ log[i].msg = m1 /\ log[j].to = c /\ log[j].msg = m2) => i < j

\* Message m written to c comes before every viewer-count written to c.
PrecedesCounts(c, m) ==
    \A i, j \in DOMAIN log :
        (log[i].to = c /\ log[i].msg = m /\ log[j].to = c /\ log[j].msg.type = "viewer-count")
        => i < j

\* C20 (as stated): on register(viewer) the new viewer is sent registered before
\* any viewer-count, and the broadcaster is sent viewer-joined for the new
\* viewer before the viewer-count that includes it; on stop every viewer is
\* sent broadcaster-ended before its channel is closed, and the broadcaster is
\* sent stopped before the viewer-count of 0.
C20_IssueOrder ==
    /\ FirstRegister("viewer")
       => LET id == viewerId[event.ws]
              b == pre.broadcasterSocket
          IN /\ Times(event.ws, RegisteredViewer(id, b # None)) = 1
             /\ TimesType(event.ws, "viewer-count") >= 1
             /\ PrecedesCounts(event.ws, RegisteredViewer(id, b # None))
             /\ Present(b) => /\ Times(b, ViewerJoined(id)) = 1
                               /\ TimesType(b, "viewer-count") >= 1
                               /\ PrecedesCounts(b, ViewerJoined(id))
    /\ (event.kind = "stop" /\ FromBroadcaster)
       => /\ \A c \in PreViewers : Precedes(c, BroadcasterEnded, CloseMark)
          /\ Precedes(event.ws, Stopped, ViewerCount(0))

\* The last event is a message only the broadcaster may send.
BroadcasterOnly ==
    \/ event.kind \in {"offer", "stop"}
    \/ event.kind = "candidate" /\ event.origin = "broadcaster"

\* C21 (as stated): an offer, a broadcaster-origin candidate or a stop from a
\* connection that is not the one in the broadcaster slot is not acted on:
\* nothing is forwarded, no channel is closed, the registry is unchanged, and
\* nothing but an error to the sender is written.
C21_OnlySlotHolderActs ==
    (BroadcasterOnly /\ pre.broadcasterSocket # event.ws)
    => /\ RegistryUnchanged
       /\ readyState = pre.readyState
       /\ \A i \in DOMAIN log : log[i].to = event.ws /\ log[i].msg.type = "error"

\* The viewer connections the map holds whose channel is open.
LiveViewers == {c \in Viewers : readyState[c] = "OPEN"}

\* The last event ran a handler that sends the viewer count once, as its last
\* step, with the map it leaves behind: a register, or the close of a viewer.
CountsOnce ==
    \/ event.kind = "register"
    \/ event.kind = "close" /\ pre.role[event.ws] = "viewer"

\* C22 (as stated): a viewer-count carries the number of distinct connections
\* with an open channel registered as viewers when it is sent.
C22_CountIsLiveViewers ==
    CountsOnce
    => \A i \in DOMAIN log :
          log[i].msg.type = "viewer-count" => log[i].msg.count = Cardinality(LiveViewers)

\* C23: the close event of a connection that never registered leaves the slot
\* and the map as they were and writes to no connection.
C23_UnregisteredCloseSilent ==
    (event.kind = "close" /\ pre.role[event.ws] = "unassigned")
    => /\ RegistryUnchanged
       /\ log = <<>>

\* C23's case: a connection without a role closed while an open broadcaster
\* held the slot and an open viewer was in the map, and nothing was written.
C23_Witness ==
    /\ event.kind = "close"
    /\ pre.role[event.ws] = "unassigned"
    /\ Present(pre.broadcasterSocket)
    /\ \E c \in PreViewers : pre.readyState[c] = "OPEN"
    /\ RegistryUnchanged
    /\ log = <<>>

====
